---- MODULE Spec2Model ----
(***************************************************************************)
(* Model of src/app.py of poker-coach: the pot-odds tool                   *)
(* calculate_pot_odds and the model selector get_best_model_name.          *)
(*                                                                         *)
(* Amounts are chip counts (naturals).  A rounded float is carried as an   *)
(* integer number of units of 10^-ndigits: required_equity_percent in      *)
(* hundredths of a percent, the odds ratio in tenths.  Python's round() is *)
(* round-half-to-even on the value it is given; on the bounded inputs used *)
(* here the float quotient rounds exactly as the rational one does.        *)
(* Model names are strings and Python's `in` is substring containment.     *)
(***************************************************************************)
EXTENDS Integers, Sequences, FiniteSets, TLC

VARIABLES
    bet_to_call,            \* argument of calculate_pot_odds
    pot_size_before_call,   \* argument of calculate_pot_odds
    potPc,                  \* "idle" | "ready" | "done"
    potResult,              \* outcome of the calculate_pot_odds call
    catalog,                \* what genai.list_models() yields: a sequence of models
    catalog0,               \* history: the catalog at process start
    calls,                  \* number of completed get_best_model_name calls
    lastListing,            \* "none" | "ok" | "raised": the last call's listing fetch
    selResult,              \* outcome of the last get_best_model_name call
    returned                \* history: values returned by calls whose fetch succeeded

vars == <<bet_to_call, pot_size_before_call, potPc, potResult,
          catalog, catalog0, calls, lastListing, selResult, returned>>

potVars == <<bet_to_call, pot_size_before_call, potPc, potResult>>
selVars == <<catalog, catalog0, calls, lastListing, selResult, returned>>

(* ------------------------------ bounds -------------------------------- *)
MaxBet == 4
MaxPot == 32
MaxCatalog == 3
MaxCalls == 2

(* ------------------------- calculate_pot_odds ------------------------- *)

Abs(x) == IF x < 0 THEN -x ELSE x

Pow10(n) == IF n = 0 THEN 1 ELSE IF n = 1 THEN 10 ELSE 100

\* num/den cut off after ndigits decimals instead of rounded
RoundTrunc(num, den, ndigits) == (num * Pow10(ndigits)) \div den

\* round(num/den, ndigits) in units of 10^-ndigits, ties to even (den > 0, num >= 0)
Round(num, den, ndigits) ==
    LET n == num * Pow10(ndigits)
        q == n \div den
        r == n % den
    IN  IF 2 * r < den THEN q
        ELSE IF 2 * r > den THEN q + 1
        ELSE IF q % 2 = 0 THEN q ELSE q + 1

\* the body of calculate_pot_odds without the line-54 guard
calculate_pot_odds_unguarded(bet, pot) ==
    LET total_pot == pot + bet
    IN  IF total_pot = 0
        THEN [outcome |-> "raise", kind |-> "exception",
              value |-> "ZeroDivisionError", divisions |-> 1]
        ELSE IF bet = 0
        THEN [outcome |-> "raise", kind |-> "exception",
              value |-> "ZeroDivisionError", divisions |-> 2]
        ELSE [outcome |-> "return", kind |-> "dict",
              value |-> [required_equity_percent |-> Round(bet * 100, total_pot, 2),
                         pot_odds_ratio |-> <<Round(pot, bet, 1), " : 1">>],
              divisions |-> 2]

\* divisions counts the division operations evaluated, a raising one included
calculate_pot_odds(bet, pot) ==
    LET total_pot == pot + bet
    IN  IF total_pot = 0
        THEN [outcome |-> "return", kind |-> "str",
              value |-> "Error: Pot is zero", divisions |-> 0]
        ELSE IF bet = 0
        THEN \* line 55 yields 0.0, line 56 divides by zero
             [outcome |-> "raise", kind |-> "exception",
              value |-> "ZeroDivisionError", divisions |-> 2]
        ELSE [outcome |-> "return", kind |-> "dict",
              value |-> [required_equity_percent |-> Round(bet * 100, total_pot, 2),
                         pot_odds_ratio |-> <<Round(pot, bet, 1), " : 1">>],
              divisions |-> 2]

NoResult == [outcome |-> "none", kind |-> "none", value |-> "", divisions |-> 0]

PotIdle ==
    /\ bet_to_call = 0
    /\ pot_size_before_call = 0
    /\ potPc = "idle"
    /\ potResult = NoResult

CallCalculatePotOdds ==
    /\ potPc = "ready"
    /\ potResult' = calculate_pot_odds(bet_to_call, pot_size_before_call)
    /\ potPc' = "done"
    /\ UNCHANGED <<bet_to_call, pot_size_before_call>>
    /\ UNCHANGED selVars

(* ------------------------- get_best_model_name ------------------------ *)

Fallback == "gemini-1.5-flash"

\* Python's `sub in s` on strings
Contains(sub, s) ==
    \E i \in 1..(Len(s) - Len(sub) + 1) : SubSeq(s, i, i + Len(sub) - 1) = sub

GenMethods == {"generateContent", "countTokens"}
EmbedMethods == {"embedContent"}

GenNames == {"models/x-flash-exp", "models/x-flash-latest", "models/x-flash",
             "models/x-flash-8b", "models/x-flash-8b-exp", "models/x-flash-8b-latest",
             "models/x-pro-latest", "models/x-pro", "models/x-pro-exp",
             "models/x-text"}
EmbedNames == {"models/x-flash-embed"}

\* the models the listing service may hold
ModelPool ==
    [name : GenNames, supported_generation_methods : {GenMethods}]
    \cup [name : EmbedNames, supported_generation_methods : {EmbedMethods}]

Catalogs == UNION {[1..n -> ModelPool] : n \in 0..MaxCatalog}

SeqMap(s) == [i \in 1..Len(s) |-> s[i].name]

SupportsGenerate(m) == "generateContent" \in m.supported_generation_methods

\* the listing without the generateContent filter
available_models_unfiltered(models) == SeqMap(models)

\* a listing kept as a generator at module level is exhausted by the first call
available_models_exhausted(models) ==
    IF calls > 0 THEN << >> ELSE SeqMap(SelectSeq(models, SupportsGenerate))

available_models(models) == SeqMap(SelectSeq(models, SupportsGenerate))

Rule1(m) == Contains("flash", m) /\ Contains("exp", m)

\* the family test dropped from rule 2
Rule2_latest_only(m) == Contains("latest", m)

Rule2(m) == Contains("flash", m) /\ Contains("latest", m)

\* the reduced-capacity test dropped from rule 3
Rule3_any_flash(m) == Contains("flash", m)

Rule3(m) == Contains("flash", m) /\ ~Contains("8b", m)

\* each for-loop returns << >> when it falls through and <<m>> when it returns m
RECURSIVE Loop1(_, _)
Loop1(ms, i) ==
    IF i > Len(ms) THEN << >>
    ELSE IF Rule1(ms[i]) THEN <<ms[i]>> ELSE Loop1(ms, i + 1)

RECURSIVE Loop2(_, _)
Loop2(ms, i) ==
    IF i > Len(ms) THEN << >>
    ELSE IF Rule2(ms[i]) THEN <<ms[i]>> ELSE Loop2(ms, i + 1)

RECURSIVE Loop3(_, _)
Loop3(ms, i) ==
    IF i > Len(ms) THEN << >>
    ELSE IF Rule3(ms[i]) THEN <<ms[i]>> ELSE Loop3(ms, i + 1)

\* one pass over the catalog trying the rules on each entry in turn
RECURSIVE SinglePass(_, _)
SinglePass(ms, i) ==
    IF i > Len(ms) THEN << >>
    ELSE IF Rule1(ms[i]) \/ Rule2(ms[i]) \/ Rule3(ms[i]) THEN <<ms[i]>>
    ELSE SinglePass(ms, i + 1)

select_single_pass(ms) ==
    IF SinglePass(ms, 1) # << >> THEN SinglePass(ms, 1)[1] ELSE Fallback

\* the three loops followed by capable-tier loops before the fallback
RECURSIVE LoopPro(_, _, _)
LoopPro(ms, i, rule) ==
    IF i > Len(ms) THEN << >>
    ELSE IF /\ Contains("pro", ms[i])
            /\ IF rule = 4 THEN Contains("latest", ms[i]) ELSE ~Contains("exp", ms[i])
         THEN <<ms[i]>>
         ELSE LoopPro(ms, i + 1, rule)

select_with_capable_tier(ms) ==
    IF Loop1(ms, 1) # << >> THEN Loop1(ms, 1)[1]
    ELSE IF Loop2(ms, 1) # << >> THEN Loop2(ms, 1)[1]
    ELSE IF Loop3(ms, 1) # << >> THEN Loop3(ms, 1)[1]
    ELSE IF LoopPro(ms, 1, 4) # << >> THEN LoopPro(ms, 1, 4)[1]
    ELSE IF LoopPro(ms, 1, 5) # << >> THEN LoopPro(ms, 1, 5)[1]
    ELSE Fallback

\* lines 34-46: the three loops, then the fallback
select(ms) ==
    IF Loop1(ms, 1) # << >> THEN Loop1(ms, 1)[1]
    ELSE IF Loop2(ms, 1) # << >> THEN Loop2(ms, 1)[1]
    ELSE IF Loop3(ms, 1) # << >> THEN Loop3(ms, 1)[1]
    ELSE Fallback

\* the function without its try/except
get_best_model_name_no_except(raises, models) ==
    IF raises
    THEN [outcome |-> "raise", value |-> "Exception"]
    ELSE [outcome |-> "return", value |-> select(available_models(models))]

\* raises: the listing fetch (or reading an entry of it) raises inside the try
get_best_model_name(raises, models) ==
    IF raises
    THEN [outcome |-> "return", value |-> Fallback]
    ELSE [outcome |-> "return", value |-> select(available_models(models))]

NoSelection == [outcome |-> "none", value |-> ""]

SelIdle ==
    /\ catalog = << >>
    /\ catalog0 = << >>
    /\ calls = 0
    /\ lastListing = "none"
    /\ selResult = NoSelection
    /\ returned = {}

\* line 63, once per run of the script
CallGetBestModelName ==
    /\ calls < MaxCalls
    /\ \E raises \in BOOLEAN :
        LET r == get_best_model_name(raises, catalog)
        IN  /\ selResult' = r
            /\ lastListing' = IF raises THEN "raised" ELSE "ok"
            /\ returned' = IF raises \/ r.outcome # "return"
                           THEN returned ELSE returned \cup {r.value}
    /\ calls' = calls + 1
    /\ UNCHANGED <<catalog, catalog0>>
    /\ UNCHANGED potVars

(* --------------------------- specifications --------------------------- *)

InitPot ==
    /\ bet_to_call \in 0..MaxBet
    /\ pot_size_before_call \in 0..MaxPot
    /\ potPc = "ready"
    /\ potResult = NoResult
    /\ SelIdle

NextPot == CallCalculatePotOdds

SpecPot == InitPot /\ [][NextPot]_vars

InitSel ==
    /\ catalog \in Catalogs
    /\ catalog0 = catalog
    /\ calls = 0
    /\ lastListing = "none"
    /\ selResult = NoSelection
    /\ returned = {}
    /\ PotIdle

NextSel == CallGetBestModelName

SpecSel == InitSel /\ [][NextSel]_vars

(* ------------------------------ properties ---------------------------- *)

PotDone == potPc = "done"
IsDict == potResult.outcome = "return" /\ potResult.kind = "dict"
Equity == potResult.value.required_equity_percent
TotalPot == pot_size_before_call + bet_to_call

\* C1: for bet_to_call > 0 and pot_size_before_call >= 0 the call returns a
\* result whose required_equity_percent is bet/(bet+pot)*100 rounded to two
\* decimals (the hundredth nearest to the exact quotient, the even one on a
\* tie), within [0, 100], and 100.0 when the prior pot is 0.
C1_RequiredEquity ==
    (PotDone /\ bet_to_call > 0) =>
        /\ IsDict
        /\ 2 * Abs(Equity * TotalPot - 10000 * bet_to_call) <= TotalPot
        /\ (2 * Abs(Equity * TotalPot - 10000 * bet_to_call) = TotalPot
                => Equity % 2 = 0)
        /\ Equity >= 0 /\ Equity <= 10000
        /\ (pot_size_before_call = 0 => Equity = 10000)

\* a call whose exact quotient is not a whole hundredth and was rounded up
C1_Witness ==
    /\ PotDone /\ bet_to_call > 0 /\ pot_size_before_call > 0
    /\ IsDict
    /\ Equity * TotalPot > 10000 * bet_to_call

\* C2: with both arguments zero the call returns the zero-pot error value:
\* it returns (raises nothing), the value is the error string and not a
\* result dict, and no division was evaluated.
C2_ZeroPot ==
    (PotDone /\ bet_to_call = 0 /\ pot_size_before_call = 0) =>
        /\ potResult.outcome = "return"
        /\ potResult.kind = "str"
        /\ potResult.value = "Error: Pot is zero"
        /\ potResult.divisions = 0

C2_Witness ==
    /\ PotDone /\ bet_to_call = 0 /\ pot_size_before_call = 0
    /\ potResult.outcome = "return" /\ potResult.kind = "str"

\* C3: with bet_to_call zero and a positive prior pot the call does not
\* raise: it returns a value (a result with required_equity_percent 0.0 or a
\* no-call-required sentinel).
C3_NoCallRequired ==
    (PotDone /\ bet_to_call = 0 /\ pot_size_before_call > 0) =>
        /\ potResult.outcome = "return"
        /\ (potResult.kind = "dict" => Equity = 0)

(* the catalog the selector scans, and the places of its entries by rule *)
Avail == SeqMap(SelectSeq(catalog, SupportsGenerate))
Min(S) == CHOOSE x \in S : \A y \in S : x <= y
Value == selResult.value
ListedOk == calls > 0 /\ lastListing = "ok"

FlashExp == {i \in DOMAIN Avail : Contains("flash", Avail[i]) /\ Contains("exp", Avail[i])}
FlashLatest == {i \in DOMAIN Avail : Contains("flash", Avail[i]) /\ Contains("latest", Avail[i])}
FlashPlain == {i \in DOMAIN Avail : /\ Contains("flash", Avail[i])
                                    /\ ~Contains("8b", Avail[i])
                                    /\ ~Contains("exp", Avail[i])}
ProLatest == {i \in DOMAIN Avail : Contains("pro", Avail[i]) /\ Contains("latest", Avail[i])}
ProStable == {i \in DOMAIN Avail : Contains("pro", Avail[i]) /\ ~Contains("exp", Avail[i])}
Flash8b == {i \in DOMAIN Avail : Contains("flash", Avail[i]) /\ Contains("8b", Avail[i])}
FlashNot8b == {i \in DOMAIN Avail : Contains("flash", Avail[i]) /\ ~Contains("8b", Avail[i])}
NoFastMatch == FlashExp = {} /\ FlashLatest = {} /\ FlashPlain = {}

\* C4: every call returns an identifier and raises nothing; when the listing
\* fetch raised, the catalog is empty, or no entry matches any of the five
\* priority rules of the policy, the identifier is the fallback.
C4_NeverFails ==
    calls > 0 =>
        /\ selResult.outcome = "return"
        /\ Len(Value) > 0
        /\ ( \/ lastListing = "raised"
             \/ Avail = << >>
             \/ (NoFastMatch /\ ProLatest = {} /\ ProStable = {})
           ) => Value = Fallback

\* the fetch raised although the catalog holds a rule-1 entry
C4_Witness ==
    /\ calls > 0 /\ lastListing = "raised"
    /\ FlashExp # {}
    /\ selResult.outcome = "return" /\ Value = Fallback

\* C5: the first fast-tier rule with a match decides, and within it the
\* earliest entry: flash+exp, else flash+latest, else flash without 8b and
\* without exp, whatever the positions of the matches of later rules.
C5_FastTierPriority ==
    ListedOk =>
        /\ (FlashExp # {} => Value = Avail[Min(FlashExp)])
        /\ (FlashExp = {} /\ FlashLatest # {} => Value = Avail[Min(FlashLatest)])
        /\ (FlashExp = {} /\ FlashLatest = {} /\ FlashPlain # {}
                => Value = Avail[Min(FlashPlain)])

\* a rule-1 entry placed after a rule-2 or rule-3 entry is the one returned
C5_Witness ==
    /\ ListedOk /\ FlashExp # {}
    /\ \E i \in (FlashLatest \cup FlashPlain) \ FlashExp : i < Min(FlashExp)
    /\ Value = Avail[Min(FlashExp)]

\* C6 as stated: with no fast-tier match the first pro+latest entry is
\* returned, else the first pro entry without exp, else the fallback.
C6_CapableTierRules ==
    (ListedOk /\ NoFastMatch) =>
        /\ (ProLatest # {} => Value = Avail[Min(ProLatest)])
        /\ (ProLatest = {} /\ ProStable # {} => Value = Avail[Min(ProStable)])
        /\ (ProLatest = {} /\ ProStable = {} => Value = Fallback)

\* C6 amended: with no fast-tier match the selector returns the fallback
\* at once, also when the catalog holds capable-tier ("pro") entries; there
\* are no capable-tier rules.
C6_FallbackWithoutFastTier ==
    (ListedOk /\ NoFastMatch) => Value = Fallback

C6_Witness ==
    /\ ListedOk /\ NoFastMatch
    /\ ProLatest # {} /\ ProStable # {}
    /\ Value = Fallback

\* C7: with a flash+latest entry and a pro+latest entry in the catalog and
\* no flash+exp entry, the first flash+latest entry is returned and not the
\* pro entry, wherever the pro entry stands.
C7_FastBeatsCapable ==
    (ListedOk /\ FlashExp = {} /\ FlashLatest # {} /\ ProLatest # {}) =>
        /\ Value = Avail[Min(FlashLatest)]
        /\ \A i \in ProLatest \ FlashLatest : Value # Avail[i]

\* the pro+latest entry comes first and the flash+latest entry is returned
C7_Witness ==
    /\ ListedOk /\ FlashExp = {} /\ FlashLatest # {} /\ ProLatest # {}
    /\ Min(ProLatest) < Min(FlashLatest)
    /\ Value = Avail[Min(FlashLatest)]

\* C8: in a catalog without flash+exp and flash+latest entries, if there
\* are flash entries with and without 8b the first one without 8b is
\* returned; if every flash entry has 8b no catalog entry is returned.
C8_ReducedCapacityExcluded ==
    (ListedOk /\ FlashExp = {} /\ FlashLatest = {}) =>
        /\ (Flash8b # {} /\ FlashNot8b # {} => Value = Avail[Min(FlashNot8b)])
        /\ (Flash8b # {} /\ FlashNot8b = {}
                => Value = Fallback /\ \A i \in DOMAIN Avail : Value # Avail[i])

\* an 8b entry precedes the flash entry that is returned
C8_Witness ==
    /\ ListedOk /\ FlashExp = {} /\ FlashLatest = {}
    /\ Flash8b # {} /\ FlashNot8b # {}
    /\ Min(Flash8b) < Min(FlashNot8b)
    /\ Value = Avail[Min(FlashNot8b)]

C10_ReturnedIdentifier ==
    calls > 0 =>
        /\ \/ Value = Fallback
           \/ \E i \in DOMAIN catalog :
                /\ catalog[i].name = Value
                /\ "generateContent" \in catalog[i].supported_generation_methods
                /\ Contains("flash", Value)
        /\ (Contains("8b", Value) => Contains("exp", Value) \/ Contains("latest", Value))

\* a reduced-capacity entry is selected by rule 1 or 2
C10_Witness ==
    /\ ListedOk
    /\ Contains("8b", Value)
    /\ \E i \in DOMAIN Avail : Avail[i] = Value

====
